---- MODULE Spec2Model ----
(***************************************************************************)
(* Model of photo-ordering (src/python/main.py).                           *)
(*                                                                         *)
(* main() reads "n m k" and k edges "u v" into a dict graph, rejects       *)
(* m <= 0, runs is_acyclic(graph) and prints either "Impossible" or the    *)
(* value of min_page_feasible(graph, m).                                   *)
(*                                                                         *)
(* A Python dict {photo: [successors]} is a TLA+ function whose domain is  *)
(* the set of surviving keys; `del d[v]` restricts the domain.  The        *)
(* adjacency lists are never changed after the read loop, so the shallow   *)
(* dict.copy() is a copy of the function.  Dict objects the solver works   *)
(* on live in `heap`; a stack frame holds the index of its dict, so that   *)
(* the in-place deletions of a callee are seen by its caller exactly when  *)
(* both hold the same object.                                              *)
(***************************************************************************)
EXTENDS Integers, Sequences, FiniteSets, TLC

\* Bounds of the explored inputs.
MaxN == 4       \* photos 1..n, n <= MaxN
MaxK == 3       \* number of edge lines read
MaxM == 3       \* largest page capacity
MaxNonPos == 1  \* capacities down to -MaxNonPos exercise the m <= 0 branch

VARIABLES
    n,          \* number of photos (header)
    m,          \* page capacity (header)
    k,          \* number of edge lines (header)
    i,          \* edge lines read so far
    input,      \* the graph as built by the read loop (kept for reference)
    heap,       \* dict objects: heap[1] is main's graph, the others are subgraph copies
    g,          \* is_acyclic's working copy
    stack,      \* call stack of min_page_feasible, top-level call first
    pc,         \* "read", "error", "is_acyclic", "call", "return", "done"
    ret,        \* value returned by the call that just returned (pc = "return")
    output,     \* what main printed
    maxDepth    \* deepest nesting of min_page_feasible calls below the top-level call

vars == <<n, m, k, i, input, heap, g, stack, pc, ret, output, maxDepth>>

----------------------------------------------------------------------------
\* Helpers

Max(a, b) == IF a >= b THEN a ELSE b

Min(a, b) == IF a <= b THEN a ELSE b

\* seeded fault: the quotient rounded down
CeilDiv_Floor(a, b) == a \div b

\* int(math.ceil(a / b)) for a >= 0, b >= 1
CeilDiv(a, b) == (a + b - 1) \div b

\* { i: [] for i in range(1, n+1) }
EmptyGraph(nn) == [v \in 1..nn |-> <<>>]

\* graph[u].append(v)
AppendEdge(d, u, v) == [d EXCEPT ![u] = Append(@, v)]

\* for photo in vs: del d[photo]
Delete(d, vs) == [v \in (DOMAIN d) \ vs |-> d[v]]

\* seeded fault: an edge from a photo to itself does not count as incoming
Roots_OtherOnly(d) ==
    {v \in DOMAIN d : \A u \in (DOMAIN d) \ {v} : \A j \in 1..Len(d[u]) : d[u][j] # v}

\* seeded fault: the keys with no outgoing edge instead of no incoming edge
Roots_Sinks(d) == {v \in DOMAIN d : Len(d[v]) = 0}

\* roots(graph): the keys that occur in no adjacency list of a surviving key
Roots(d) ==
    {v \in DOMAIN d : \A u \in DOMAIN d : \A j \in 1..Len(d[u]) : d[u][j] # v}

\* seeded fault: the test for being a root is left out
IsolatedVertices_NotOnlyRoots(d) == {v \in DOMAIN d : Len(d[v]) = 0}

\* isolated_vertices(graph): the roots whose own adjacency list is empty
IsolatedVertices(d) == {v \in Roots(d) : Len(d[v]) = 0}

\* The orders in which iterating over the set S may yield its elements.
\* The language does not define the iteration order of a set (CPython
\* follows the hash table), so every order is possible.
Orders(S) ==
    {s \in [1..Cardinality(S) -> S] :
        \A a, b \in 1..Cardinality(S) : a # b => s[a] # s[b]}

\* the photos of a tuple
Range(t) == {t[j] : j \in 1..Len(t)}

\* combinations() works on positions of its input: the r-element sets of
\* positions of an input of length len
PositionSets(len, r) == {P \in SUBSET (1..len) : Cardinality(P) = r}

\* combinations() yields in lexicographic order of positions: P comes
\* before Q when the least position in which they differ belongs to P
LexBefore(P, Q) ==
    LET D == (P \ Q) \cup (Q \ P)
    IN  D # {} /\ (CHOOSE x \in D : \A y \in D : x <= y) \in P

\* the position set yielded first among todo
NextPage(todo) == CHOOSE P \in todo : \A Q \in todo \ {P} : LexBefore(P, Q)

\* the position sets of todo in the order they are yielded
RECURSIVE InYieldOrder(_)
InYieldOrder(todo) ==
    IF todo = {} THEN <<>>
    ELSE <<NextPage(todo)>> \o InYieldOrder(todo \ {NextPage(todo)})

\* the tuple of the elements of order at the positions P, in input order
PageAt(order, P) ==
    [j \in 1..Cardinality(P) |->
        order[CHOOSE q \in P : Cardinality({x \in P : x < q}) = j - 1]]

\* itertools.combinations(order, r): the sequence of the r-tuples it yields,
\* order being the sequence in which the iterable yields its elements
Combinations(order, r) ==
    LET ps == InYieldOrder(PositionSets(Len(order), r))
    IN  [j \in 1..Len(ps) |-> PageAt(order, ps[j])]

\* seeded fault: zero is accepted as a capacity
BadCapacity_Strict(mm) == mm < 0

\* main's test of the capacity: if m <= 0
BadCapacity(mm) == mm <= 0

\* The tests of min_page_feasible
\* seeded fault: the empty graph is not recognised
IsEmptyGraph_Never(n_photos) == n_photos < 0

IsEmptyGraph(n_photos) == n_photos = 0

OnePerPage(max_by_page) == max_by_page = 1


\* seeded fault: the comparison is inverted
AllFit_Inverted(photos_ready, max_by_page) == Cardinality(photos_ready) >= max_by_page

AllFit(photos_ready, max_by_page) == Cardinality(photos_ready) <= max_by_page

\* The values min_page_feasible returns from its three cases
\* seeded fault: the bound ceil(n_photos / max_by_page) is left out
Case1Result_NoCeil(rec, n_photos, max_by_page) == rec

Case1Result(rec, n_photos, max_by_page) == Max(rec, CeilDiv(n_photos, max_by_page))


\* seeded fault: the page just filled is not counted
Case2Result_NoPage(rec) == rec

Case2Result(rec) == 1 + rec

Case3Result(result, rec) == Min(result, 1 + rec)

\* A stack frame of min_page_feasible: its dict, n_photos, where it is
\* ("entry", "case1", "case2", "case3"), and the loop state of case 3 (the
\* pages combinations() has still to yield, in order, and result).
Frame(obj, at, n_photos, todo, result) ==
    [g |-> obj, at |-> at, n_photos |-> n_photos, todo |-> todo, result |-> result]

\* n_photos = len(graph) is taken when the call is entered
NewFrame(obj, d) == Frame(obj, "entry", Cardinality(DOMAIN d), <<>>, 0)

Top == stack[Len(stack)]

SetTop(f) == [stack EXCEPT ![Len(stack)] = f]

Pop == SubSeq(stack, 1, Len(stack) - 1)

\* seeded fault: subgraph = graph, without the copy
Subgraph_Alias == Top.g

\* subgraph = graph.copy(): the name subgraph is bound to a new dict object
Subgraph == Len(heap) + 1

\* the dict object obj becomes d (a new object is appended to the heap)
Store(h, obj, d) == IF obj = Len(h) + 1 THEN Append(h, d) ELSE [h EXCEPT ![obj] = d]

NoOutput == [kind |-> "none", value |-> 0]

----------------------------------------------------------------------------
\* main: the header line has been read and the empty graph built.
\* Inputs are well-formed files: every u and v lies in 1..n (an u outside
\* raises KeyError at graph[u]; malformed files are outside the algorithm),
\* so with n = 0 there is no edge line.

Init ==
    /\ n \in 0..MaxN
    /\ m \in (0 - MaxNonPos)..MaxM
    /\ k \in 0..MaxK
    /\ (n = 0 => k = 0)
    /\ i = 0
    /\ input = EmptyGraph(n)
    /\ heap = <<EmptyGraph(n)>>
    /\ g = EmptyGraph(0)
    /\ stack = <<>>
    /\ pc = "read"
    /\ ret = 0
    /\ output = NoOutput
    /\ maxDepth = 0

\* one iteration of the read loop: u, v = ...; graph[u].append(v)
ReadEdge ==
    /\ pc = "read"
    /\ i < k
    /\ \E u \in 1..n, v \in 1..n :
        /\ heap' = [heap EXCEPT ![1] = AppendEdge(@, u, v)]
        /\ input' = AppendEdge(input, u, v)
    /\ i' = i + 1
    /\ UNCHANGED <<n, m, k, g, stack, pc, ret, output, maxDepth>>

\* if m <= 0: raise Exception("Bad value for m")
ConfigError ==
    /\ pc = "read"
    /\ i = k
    /\ BadCapacity(m)
    /\ pc' = "error"
    /\ UNCHANGED <<n, m, k, i, input, heap, g, stack, ret, output, maxDepth>>

\* m > 0: is_acyclic(graph) is entered; g = graph.copy()
IsAcyclicEnter ==
    /\ pc = "read"
    /\ i = k
    /\ ~BadCapacity(m)
    /\ g' = heap[1]
    /\ pc' = "is_acyclic"
    /\ UNCHANGED <<n, m, k, i, input, heap, stack, ret, output, maxDepth>>

\* a loop iteration that finds roots and deletes them
IsAcyclicDelete ==
    /\ pc = "is_acyclic"
    /\ DOMAIN g # {}
    /\ Roots(g) # {}
    /\ g' = Delete(g, Roots(g))
    /\ UNCHANGED <<n, m, k, i, input, heap, stack, pc, ret, output, maxDepth>>

\* len(g_roots) == 0: return False; main prints "Impossible"
IsAcyclicFalse ==
    /\ pc = "is_acyclic"
    /\ DOMAIN g # {}
    /\ Roots(g) = {}
    /\ output' = [kind |-> "impossible", value |-> 0]
    /\ pc' = "done"
    /\ UNCHANGED <<n, m, k, i, input, heap, g, stack, ret, maxDepth>>

\* len(g) == 0: return True; main calls min_page_feasible(graph, m)
IsAcyclicTrue ==
    /\ pc = "is_acyclic"
    /\ DOMAIN g = {}
    /\ stack' = <<NewFrame(1, heap[1])>>
    /\ pc' = "call"
    /\ UNCHANGED <<n, m, k, i, input, heap, g, ret, output, maxDepth>>

----------------------------------------------------------------------------
\* min_page_feasible(graph, max_by_page), the frame on top of the stack

Entered == pc = "call" /\ stack # <<>> /\ Top.at = "entry"

\* a recursive call on dict object obj, made by the top frame which moves to `at`
Call(at, obj, todo, result) ==
    /\ stack' = Append(SetTop(Frame(Top.g, at, Top.n_photos, todo, result)), NewFrame(obj, heap'[obj]))
    /\ maxDepth' = Max(maxDepth, Len(stack))
    /\ pc' = "call"

\* the top frame returns v
Return(v) ==
    /\ stack' = Pop
    /\ ret' = v
    /\ pc' = "return"

\* if n_photos == 0: return 0
ReturnEmpty ==
    /\ Entered
    /\ IsEmptyGraph(Top.n_photos)
    /\ Return(0)
    /\ UNCHANGED <<n, m, k, i, input, heap, g, output, maxDepth>>

\* if max_by_page == 1: return n_photos
ReturnOnePerPage ==
    /\ Entered
    /\ ~IsEmptyGraph(Top.n_photos)
    /\ OnePerPage(m)
    /\ Return(Top.n_photos)
    /\ UNCHANGED <<n, m, k, i, input, heap, g, output, maxDepth>>

\* Case 1: delete the isolated vertices in place and recurse on the same dict
Case1 ==
    /\ Entered
    /\ ~IsEmptyGraph(Top.n_photos)
    /\ ~OnePerPage(m)
    /\ IsolatedVertices(heap[Top.g]) # {}
    /\ heap' = [heap EXCEPT ![Top.g] = Delete(@, IsolatedVertices(@))]
    /\ Call("case1", Top.g, <<>>, 0)
    /\ UNCHANGED <<n, m, k, i, input, g, ret, output>>

\* Case 2: all roots fit on the next page; delete them in place and recurse
Case2 ==
    /\ Entered
    /\ ~IsEmptyGraph(Top.n_photos)
    /\ ~OnePerPage(m)
    /\ IsolatedVertices(heap[Top.g]) = {}
    /\ AllFit(Roots(heap[Top.g]), m)
    /\ heap' = [heap EXCEPT ![Top.g] = Delete(@, Roots(@))]
    /\ Call("case2", Top.g, <<>>, 0)
    /\ UNCHANGED <<n, m, k, i, input, g, ret, output>>

\* Case 3: result = n_photos; the loop over combinations(photos_ready, m)
\* starts, photos_ready being iterated in one of its possible orders
Case3Begin ==
    /\ Entered
    /\ ~IsEmptyGraph(Top.n_photos)
    /\ ~OnePerPage(m)
    /\ IsolatedVertices(heap[Top.g]) = {}
    /\ ~AllFit(Roots(heap[Top.g]), m)
    /\ \E order \in Orders(Roots(heap[Top.g])) :
        stack' = SetTop(Frame(Top.g, "case3", Top.n_photos,
                              Combinations(order, m), Top.n_photos))
    /\ UNCHANGED <<n, m, k, i, input, heap, g, pc, ret, output, maxDepth>>

\* loop body: subgraph = graph.copy(); delete the page from it; recurse on it
Case3Call ==
    /\ pc = "call" /\ stack # <<>> /\ Top.at = "case3"
    /\ Top.todo # <<>>
    /\ LET page == Head(Top.todo)
           subgraph == Subgraph
       IN
        /\ heap' = Store(heap, subgraph, Delete(heap[Top.g], Range(page)))
        /\ Call("case3", subgraph, Tail(Top.todo), Top.result)
    /\ UNCHANGED <<n, m, k, i, input, g, ret, output>>

\* the loop is exhausted: return result
Case3Return ==
    /\ pc = "call" /\ stack # <<>> /\ Top.at = "case3"
    /\ Top.todo = <<>>
    /\ Return(Top.result)
    /\ UNCHANGED <<n, m, k, i, input, heap, g, output, maxDepth>>

\* the recursive call of case 1 returned: return max(ret, ceil(n_photos / m))
Resume1 ==
    /\ pc = "return" /\ stack # <<>> /\ Top.at = "case1"
    /\ Return(Case1Result(ret, Top.n_photos, m))
    /\ UNCHANGED <<n, m, k, i, input, heap, g, output, maxDepth>>

\* the recursive call of case 2 returned: return 1 + ret
Resume2 ==
    /\ pc = "return" /\ stack # <<>> /\ Top.at = "case2"
    /\ Return(Case2Result(ret))
    /\ UNCHANGED <<n, m, k, i, input, heap, g, output, maxDepth>>

\* a recursive call of the case 3 loop returned: result = min(result, 1 + ret);
\* the subgraph of this iteration is dropped
Resume3 ==
    /\ pc = "return" /\ stack # <<>> /\ Top.at = "case3"
    /\ stack' = SetTop(Frame(Top.g, "case3", Top.n_photos, Top.todo,
                             Case3Result(Top.result, ret)))
    /\ heap' = SubSeq(heap, 1, Top.g)
    /\ pc' = "call"
    /\ UNCHANGED <<n, m, k, i, input, g, ret, output, maxDepth>>

\* the top-level call returned: print(min_page_feasible(graph, m))
PrintResult ==
    /\ pc = "return" /\ stack = <<>>
    /\ output' = [kind |-> "number", value |-> ret]
    /\ pc' = "done"
    /\ UNCHANGED <<n, m, k, i, input, heap, g, stack, ret, maxDepth>>

Next ==
    \/ ReadEdge
    \/ ConfigError
    \/ IsAcyclicEnter
    \/ IsAcyclicDelete
    \/ IsAcyclicFalse
    \/ IsAcyclicTrue
    \/ ReturnEmpty
    \/ ReturnOnePerPage
    \/ Case1
    \/ Case2
    \/ Case3Begin
    \/ Case3Call
    \/ Case3Return
    \/ Resume1
    \/ Resume2
    \/ Resume3
    \/ PrintResult

Spec == Init /\ [][Next]_vars

----------------------------------------------------------------------------
\* min_page_feasible on a fresh copy of the graph: the set of the values a
\* call may return.  The iteration order of the set photos_ready is not
\* defined, so case 3 is taken over every order; each order gives the pages
\* in its own sequence.

RECURSIVE MinPageFeasible(_, _), Case3Loop(_, _, _, _)

\* the loop of case 3 over the pages still to come; results holds the
\* values result may have at this point
Case3Loop(d, max_by_page, todo, results) ==
    IF todo = <<>> THEN results
    ELSE Case3Loop(d, max_by_page, Tail(todo),
                   {Case3Result(r, v) :
                        r \in results,
                        v \in MinPageFeasible(Delete(d, Range(Head(todo))), max_by_page)})

MinPageFeasible(d, max_by_page) ==
    LET n_photos == Cardinality(DOMAIN d)
    IN  IF IsEmptyGraph(n_photos) THEN {0}
        ELSE IF OnePerPage(max_by_page) THEN {n_photos}
        ELSE IF IsolatedVertices(d) # {}
            THEN {Case1Result(v, n_photos, max_by_page) :
                    v \in MinPageFeasible(Delete(d, IsolatedVertices(d)), max_by_page)}
        ELSE IF AllFit(Roots(d), max_by_page)
            THEN {Case2Result(v) : v \in MinPageFeasible(Delete(d, Roots(d)), max_by_page)}
        ELSE UNION {Case3Loop(d, max_by_page, Combinations(order, max_by_page), {n_photos}) :
                        order \in Orders(Roots(d))}

----------------------------------------------------------------------------
\* Notions the properties are stated with (independent of the code)

\* the edges u -> v of a graph
Edges(d) == UNION {{<<u, d[u][j]>> : j \in 1..Len(d[u])} : u \in DOMAIN d}

\* the vertices reachable from S by one or more edges
RECURSIVE ReachFrom(_, _)
ReachFrom(d, S) ==
    LET T == S \cup {e[2] : e \in {x \in Edges(d) : x[1] \in S}}
    IN  IF T = S THEN S ELSE ReachFrom(d, T)

Successors(d, v) == {e[2] : e \in {x \in Edges(d) : x[1] = v}}

\* some vertex reaches itself along at least one edge (a self-loop included)
HasCycle(d) == \E v \in DOMAIN d : v \in ReachFrom(d, Successors(d, v))

\* f puts every photo on one of the pages 1..P, at most cap on a page, and
\* the source of every edge (one of E) on a strictly earlier page than its target
ValidAssignment(f, V, E, P, cap) ==
    /\ \A e \in E : f[e[1]] < f[e[2]]
    /\ \A p \in 1..P : Cardinality({v \in V : f[v] = p}) <= cap

Feasible(d, P, cap) ==
    LET V == DOMAIN d
        E == Edges(d)
    IN  \E f \in [V -> 1..P] : ValidAssignment(f, V, E, P, cap)

\* P is the least number of pages that admits a valid assignment
IsTrueMinPages(d, P, cap) ==
    /\ Feasible(d, P, cap)
    /\ \A Q \in 0..(P - 1) : ~Feasible(d, Q, cap)

\* every photo named in an adjacency list of d is a key of d
NoDangling(d) == \A u \in DOMAIN d : \A j \in 1..Len(d[u]) : d[u][j] \in DOMAIN d

\* ceil(a / b): the least q with q * b >= a
CeilQuot(a, b) == CHOOSE q \in 0..a : q * b >= a /\ \A r \in 0..(q - 1) : r * b < a

Printed(kind) == pc = "done" /\ output.kind = kind

Terminated == pc \in {"done", "error"}

\* is_acyclic has returned True / False
ReturnedTrue == pc \in {"call", "return"} \/ Printed("number")

ReturnedFalse == Printed("impossible")

----------------------------------------------------------------------------
\* C1: for an acyclic graph and m >= 1 the program prints an integer, and it
\* is the true minimum number of pages; the chain 1->2->3 with m = 2 gives 3
\* and the edges 1->3, 2->3 on 4 photos with m = 2 give 2.
C1_PrintsTrueMinimum ==
    /\ (pc = "done" /\ m >= 1 /\ ~HasCycle(input)) => output.kind = "number"
    /\ Printed("number") => IsTrueMinPages(input, output.value, m)
    /\ (Printed("number") /\ m = 2 /\ input = <<<<2>>, <<3>>, <<>>>>) => output.value = 3
    /\ (Printed("number") /\ m = 2 /\ input = <<<<3>>, <<3>>, <<>>, <<>>>>) => output.value = 2

\* a run that went through the combinatorial case at the top level
C1_Witness ==
    /\ Printed("number")
    /\ IsolatedVertices(input) = {}
    /\ Cardinality(Roots(input)) > m
    /\ m = 2
    /\ output.value = 3

\* C2 as stated: a graph with a cycle ends in "Impossible" whatever m is.
C2_ImpossibleForAnyM ==
    (Terminated /\ HasCycle(input)) => Printed("impossible")

\* C2 amended: a graph with a cycle and m >= 1 ends in "Impossible" (with
\* m <= 0 the run ends in the configuration error instead).
C2_ImpossibleForPositiveM ==
    /\ (Terminated /\ HasCycle(input) /\ m >= 1) => Printed("impossible")
    /\ (Terminated /\ HasCycle(input) /\ m <= 0) => pc = "error"

\* a self-loop reported as Impossible
C2_Witness ==
    /\ Printed("impossible")
    /\ \E v \in DOMAIN input : v \in Successors(input, v)
    /\ m >= 2

\* C3: for a fixed acyclic graph, a larger capacity never needs more pages:
\* the printed value for m is at least every value min_page_feasible may
\* return for any m2 >= m and at most every value for any m1 <= m.
C3_MonotoneInCapacity ==
    Printed("number") =>
        /\ \A m2 \in m..MaxM : \A v \in MinPageFeasible(input, m2) : v <= output.value
        /\ \A m1 \in 1..m : /\ MinPageFeasible(input, m1) # {}
                             /\ \A v \in MinPageFeasible(input, m1) : output.value <= v

\* a graph on which the page count strictly drops from m = 2 to m = 3
C3_Witness ==
    /\ Printed("number")
    /\ m = 2
    /\ k > 0
    /\ \E v \in MinPageFeasible(input, 3) : v < output.value

\* C4: with zero edges the result is ceil(n / m); n = 0 gives 0 and n = 3,
\* m = 2 gives 2.
C4_NoEdges ==
    /\ (pc = "done" /\ k = 0) => output = [kind |-> "number", value |-> CeilQuot(n, m)]
    /\ (pc = "done" /\ k = 0 /\ n = 0) => output.value = 0
    /\ (pc = "done" /\ k = 0 /\ n = 3 /\ m = 2) => output.value = 2

C4_Witness == Printed("number") /\ k = 0 /\ n = 3 /\ m = 2 /\ output.value = 2

\* C5: with m <= 0 the run ends in the configuration error: the test is made
\* once the graph is built, is_acyclic and the solver never run and nothing
\* is printed.
C5_ConfigError ==
    /\ m <= 0 => /\ pc \in {"read", "error"}
                 /\ output = NoOutput
                 /\ stack = <<>>
                 /\ g = EmptyGraph(0)
                 /\ (pc = "read" /\ i = k) => ENABLED ConfigError
    /\ pc = "error" => m <= 0 /\ i = k

C5_Witness == pc = "error" /\ m = 0 /\ k > 0 /\ i = k

\* C6: an acyclic graph with |V| >= m * (|E| + 1) can be placed on
\* ceil(|V| / m) pages, and that is the value printed.
C6_DensityBound ==
    (Printed("number") /\ n >= m * (k + 1)) =>
        /\ Feasible(input, CeilQuot(n, m), m)
        /\ output.value = CeilQuot(n, m)

C6_Witness == Printed("number") /\ n >= m * (k + 1) /\ k >= 1 /\ m >= 2

\* C7 as stated: the depth of nested calls never exceeds the number of pages
\* returned by the top-level call.
C7_DepthAtMostPages == Printed("number") => maxDepth <= output.value

\* C7 amended: the depth of nested calls never exceeds the number of photos.
C7_DepthAtMostPhotos ==
    /\ maxDepth <= n
    /\ stack # <<>> => Len(stack) - 1 <= maxDepth

\* a run whose nesting is as deep as there are photos and deeper than its pages
C7_Witness == Printed("number") /\ n >= 3 /\ maxDepth = n /\ maxDepth > output.value

\* C8: a frame in the combinatorial branch hands every callee a dict object
\* of its own holding the graph less one page of exactly m roots, and its
\* own graph is the same after every step taken while it is in that branch.
C8_BranchesDoNotInterfere ==
    /\ [](\A lvl \in 1..(Len(stack) - 1) :
            stack[lvl].at = "case3" => stack[lvl + 1].g # stack[lvl].g)
    /\ [][\A lvl \in 1..Len(stack) :
            (stack[lvl].at = "case3" /\ lvl <= Len(stack') /\ stack'[lvl].at = "case3")
                => heap'[stack[lvl].g] = heap[stack[lvl].g]]_vars
    /\ [][(pc = "call" /\ stack # <<>> /\ Top.at = "case3" /\ Len(stack') > Len(stack))
            => \E page \in SUBSET Roots(heap[Top.g]) :
                /\ Cardinality(page) = m
                /\ heap'[stack'[Len(stack')].g] = Delete(heap[Top.g], page)]_vars

\* a callee of the combinatorial branch has deleted vertices in place and a
\* sibling has already been evaluated
C8_Witness ==
    \E lvl \in 1..(Len(stack) - 1) :
        /\ stack[lvl].at = "case3"
        /\ stack[lvl].result < stack[lvl].n_photos
        /\ stack[lvl + 1].at \in {"case1", "case2"}

\* C9: is_acyclic terminates (every iteration that does not return deletes a
\* vertex of the working copy, and a step is always possible) and returns
\* True iff the graph has no directed cycle; it returns False exactly when a
\* non-empty working graph has no roots.
C9_IsAcyclic ==
    /\ [](ReturnedTrue => ~HasCycle(input) /\ DOMAIN g = {})
    /\ [](ReturnedFalse => HasCycle(input) /\ DOMAIN g # {} /\ Roots(g) = {})
    /\ [](pc = "is_acyclic" =>
            /\ ENABLED (IsAcyclicDelete \/ IsAcyclicFalse \/ IsAcyclicTrue)
            /\ (DOMAIN g # {} /\ Roots(g) = {}) => ~ENABLED (IsAcyclicDelete \/ IsAcyclicTrue))
    /\ [][(pc = "is_acyclic" /\ pc' = "is_acyclic")
            => Cardinality(DOMAIN g') < Cardinality(DOMAIN g)]_vars

\* a cycle found only after some roots were deleted
C9_Witness ==
    /\ ReturnedFalse
    /\ Cardinality(DOMAIN g) < n
    /\ Cardinality(DOMAIN g) >= 2

\* C10: in every dict reached by is_acyclic and by min_page_feasible every
\* vertex in the adjacency list of a surviving key is a surviving key, so a
\* surviving key has an empty list exactly when it has no surviving successor.
C10_NoDanglingReferences ==
    \A d \in {g} \cup {heap[obj] : obj \in 1..Len(heap)} :
        /\ NoDangling(d)
        /\ \A v \in DOMAIN d :
            Len(d[v]) = 0 <=> ~(\E j \in 1..Len(d[v]) : d[v][j] \in DOMAIN d)

\* the solver works on a graph that lost vertices and still has edges
C10_Witness ==
    /\ pc = "call"
    /\ \E obj \in 1..Len(heap) :
        /\ DOMAIN heap[obj] # DOMAIN input
        /\ \E u \in DOMAIN heap[obj] : Len(heap[obj][u]) > 0

====
